---- MODULE Spec2Model ----
(***************************************************************************)
(* Model of deepface/commons/functions.py: load_image, detect_faces,       *)
(* preprocess_face, reshape_face and normalize_input.                      *)
(*                                                                         *)
(* An image is abstracted to its spatial shape <<rows, cols>> and a tag    *)
(* naming its pixel content ("input": the pixels of the caller's image,    *)
(* "crop": pixels cut out (and possibly aligned) by a detector backend).   *)
(* A call is three steps: the caller fixes the arguments, the function     *)
(* body runs to completion in one step and leaves its outcome in ret, and  *)
(* the caller takes the outcome.                                           *)
(* The detector cache of deepface.detectors.FaceDetector is the only state *)
(* that survives a call.                                                   *)
(***************************************************************************)
EXTENDS Integers, Sequences, FiniteSets, TLC

VARIABLES
    pc,                 \* "idle", the name of the function about to run, or "returned"
    args,               \* arguments of the current / last call
    ret,                \* outcome of the last completed call
    face_detector_obj,  \* FaceDetector's global cache: backend name -> instance (0: none)
    builds              \* backend name -> number of detector constructions so far

vars == <<pc, args, ret, face_detector_obj, builds>>

----------------------------------------------------------------------------
(* Bounds *)

MaxImg == 1       \* rows / cols of an input image of detect_faces and preprocess_face
MaxFaces == 2     \* faces a backend reports in one call
MaxDim == 4       \* rows / cols of an image handed to reshape_face directly
MaxTarget == 3    \* components of target_size in reshape_face

Backends == {"opencv", "mtcnn"}
BackendNames == Backends \cup {"skip"}

----------------------------------------------------------------------------
(* Data *)

Img(h, w, p) == [shape |-> <<h, w>>, px |-> p]

Face(i, r) == [img |-> i, region |-> r]

IsEmpty(img) == img.shape[1] = 0 \/ img.shape[2] = 0

Raise(e) == [raised |-> TRUE, error |-> e]

NoRet == [op |-> "none"]
NoArgs == [op |-> "none"]

\* Input descriptors of load_image: a numpy array (possibly empty), a
\* "data:image/..." base64 string, or a path, which may not exist.
\* Decoders only ever produce non-empty images.
Descriptors ==
    {[kind |-> "array", exists |-> TRUE, img |-> Img(h, w, "input")] :
        h \in 0..MaxImg, w \in 0..MaxImg}
    \cup {[kind |-> k, exists |-> TRUE, img |-> Img(h, w, "input")] :
        k \in {"base64", "path"}, h \in 1..MaxImg, w \in 1..MaxImg}
    \cup {[kind |-> "path", exists |-> FALSE, img |-> Img(1, 1, "input")]}

\* All sequences over S of length at most n.
RECURSIVE SeqsUpTo(_, _)
SeqsUpTo(S, n) ==
    IF n = 0 THEN {<<>>}
    ELSE LET shorter == SeqsUpTo(S, n - 1)
         IN  shorter \cup {Append(s, x) : s \in {t \in shorter : Len(t) = n - 1}, x \in S}

----------------------------------------------------------------------------
(* deepface.detectors.FaceDetector (imported, not part of functions.py) *)

\* FaceDetector.build_model: the instance stored for the name, constructed
\* and stored on the first request only.
build_model(name, cache, count) ==
    IF cache[name] # 0
    THEN [handle |-> cache[name], cache |-> cache, builds |-> count, built |-> FALSE]
    ELSE [handle |-> count[name] + 1,
          cache |-> [cache EXCEPT ![name] = count[name] + 1],
          builds |-> [count EXCEPT ![name] = count[name] + 1],
          built |-> TRUE]

\* A detector constructed directly, bypassing the cache (the counter stops at 3).
build_fresh(name, cache, count) ==
    LET k == IF count[name] < 3 THEN count[name] + 1 ELSE 3
    IN  [handle |-> k, cache |-> [cache EXCEPT ![name] = k],
         builds |-> [count EXCEPT ![name] = k], built |-> TRUE]

\* The faces a backend can report for an image: each crop lies inside the
\* image (and may be degenerate), its region is [x, y, w, h].
BackendFaces(img) ==
    {Face(Img(h, w, "crop"), <<0, 0, w, h>>) :
        h \in 0..img.shape[1], w \in 0..img.shape[2]}

\* FaceDetector.detect_faces: raises, or returns a list of (crop, region).
BackendOutcomes(img) ==
    {[raised |-> TRUE, faces |-> <<>>]}
    \cup {[raised |-> FALSE, faces |-> fs] : fs \in SeqsUpTo(BackendFaces(img), MaxFaces)}

----------------------------------------------------------------------------
(* load_image *)

load_image(d) ==
    IF d.kind = "array" THEN [raised |-> FALSE, img |-> d.img]
    ELSE IF d.kind = "base64" THEN [raised |-> FALSE, img |-> d.img]
    ELSE IF ~d.exists THEN Raise("NotFound")
    ELSE [raised |-> FALSE, img |-> d.img]

----------------------------------------------------------------------------
(* detect_faces *)

\* img_region = [0, 0, img.shape[0], img.shape[1]]
whole_region(img) == <<0, 0, img.shape[1], img.shape[2]>>

IsSkip_never(detector_backend) == FALSE

IsSkip(detector_backend) == detector_backend = "skip"

get_detector_rebuild(detector_backend, cache, count) ==
    build_fresh(detector_backend, cache, count)

\* face_detector = FaceDetector.build_model(detector_backend)
get_detector(detector_backend, cache, count) ==
    build_model(detector_backend, cache, count)

call_backend_propagate(out) == out

\* try: faces = FaceDetector.detect_faces(...)  except: faces = []
call_backend(out) ==
    IF out.raised THEN [raised |-> FALSE, faces |-> <<>>]
    ELSE [raised |-> FALSE, faces |-> out.faces]

\* if len(faces) == 0: ...
zero_faces_policy(faces, img, enforce_detection) ==
    IF Len(faces) = 0
    THEN IF ~enforce_detection
         THEN Raise("NoFaceDetected")
         ELSE [raised |-> FALSE, faces |-> <<Face(img, whole_region(img))>>]
    ELSE [raised |-> FALSE, faces |-> faces]

degenerate_check_first_only(faces, enforce_detection) ==
    Len(faces) > 0 /\ IsEmpty(faces[1].img) /\ enforce_detection

\* for img, region in faces: if (shape[0] == 0 or shape[1] == 0) and enforce_detection: raise
degenerate_check(faces, enforce_detection) ==
    \E i \in 1..Len(faces) : IsEmpty(faces[i].img) /\ enforce_detection

\* The body of detect_faces on descriptor d, with `out` the backend's
\* behaviour should it be invoked.  Returns the outcome and the new cache.
detect_faces_body(d, enforce_detection, detector_backend, align, out, cache, count) ==
    LET L == load_image(d)
        same == [cache |-> cache, builds |-> count, built |-> FALSE,
                 invoked |-> FALSE, handle |-> 0]
    IN
    IF L.raised
    THEN [status |-> "raise", error |-> L.error, faces |-> <<>>] @@ same
    ELSE IF IsSkip(detector_backend)
    THEN [status |-> "ok", error |-> "",
          faces |-> <<Face(L.img, whole_region(L.img))>>] @@ same
    ELSE
    LET B == get_detector(detector_backend, cache, count)
        det == [cache |-> B.cache, builds |-> B.builds, built |-> B.built,
                invoked |-> TRUE, handle |-> B.handle]
        F == call_backend(out)
    IN
    IF F.raised
    THEN [status |-> "raise", error |-> "backend", faces |-> <<>>] @@ det
    ELSE
    LET Z == zero_faces_policy(F.faces, L.img, enforce_detection)
    IN
    IF Z.raised
    THEN [status |-> "raise", error |-> Z.error, faces |-> <<>>] @@ det
    ELSE IF degenerate_check(Z.faces, enforce_detection)
    THEN [status |-> "raise", error |-> "DegenerateFace", faces |-> <<>>] @@ det
    ELSE [status |-> "ok", error |-> "", faces |-> Z.faces] @@ det

\* What the backend found, as the caller of the backend sees it.
Found(out) == IF out.raised THEN 0 ELSE Len(out.faces)

CallDetect ==
    /\ pc = "idle"
    /\ \E d \in Descriptors, e \in BOOLEAN, b \in BackendNames, a \in BOOLEAN :
         args' = [op |-> "detect_faces", img |-> d, enforce_detection |-> e,
                  detector_backend |-> b, align |-> a]
    /\ pc' = "detect_faces"
    /\ ret' = NoRet
    /\ UNCHANGED <<face_detector_obj, builds>>

detect_faces ==
    /\ pc = "detect_faces"
    /\ \E out \in BackendOutcomes(args.img.img) :
         LET R == detect_faces_body(args.img, args.enforce_detection,
                                    args.detector_backend, args.align, out,
                                    face_detector_obj, builds)
         IN  /\ ret' = [op |-> "detect_faces", status |-> R.status, error |-> R.error,
                        faces |-> R.faces, built |-> R.built, invoked |-> R.invoked,
                        handle |-> R.handle,
                        backend_raised |-> R.invoked /\ out.raised,
                        reported |-> IF R.invoked /\ ~out.raised THEN out.faces ELSE <<>>,
                        found |-> IF R.invoked THEN Found(out) ELSE 0,
                        cache_before |-> face_detector_obj]
             /\ face_detector_obj' = R.cache
             /\ builds' = R.builds
    /\ pc' = "returned"
    /\ UNCHANGED args

InitState ==
    /\ pc = "idle"
    /\ args = NoArgs
    /\ ret = NoRet
    /\ face_detector_obj = [n \in BackendNames |-> 0]
    /\ builds = [n \in BackendNames |-> 0]

\* The caller takes the outcome of the call; nothing of it stays behind.
Return ==
    /\ pc = "returned"
    /\ pc' = "idle"
    /\ args' = NoArgs
    /\ ret' = NoRet
    /\ UNCHANGED <<face_detector_obj, builds>>

NextDetect == CallDetect \/ detect_faces \/ Return

SpecDetect == InitState /\ [][NextDetect]_vars

----------------------------------------------------------------------------
(* reshape_face *)

\* int(n * (num / den)) for non-negative n, num and positive den
scaled(n, num, den) == (n * num) \div den

\* factor = min(target_size[0] / img.shape[0], target_size[1] / img.shape[1]),
\* kept as the fraction <<numerator, denominator>>
factor(shape, target_size) ==
    IF target_size[1] * shape[2] <= target_size[2] * shape[1]
    THEN <<target_size[1], shape[1]>>
    ELSE <<target_size[2], shape[2]>>

\* dsize = (int(img.shape[1] * factor), int(img.shape[0] * factor)): (width, height)
dsize(shape, target_size) ==
    LET f == factor(shape, target_size)
    IN  <<scaled(shape[2], f[1], f[2]), scaled(shape[1], f[1], f[2])>>

pad_widths_floor_both(diff) == <<diff \div 2, diff \div 2>>

\* (diff // 2, diff - diff // 2)
pad_widths(diff) == <<diff \div 2, diff - diff \div 2>>

\* if img.shape[0:2] != target_size
needs_final_resize(shape, target_size) == shape # target_size

no_result == [tensor |-> <<>>, resized |-> <<>>, pads |-> <<>>, padded |-> <<>>,
              forced |-> FALSE]

\* The body of reshape_face.  tensor is the shape of the returned array,
\* (1, rows, cols, channels); resized is the shape after the first resize;
\* pads is <<top, bottom, left, right>>.
reshape_face_body(img, region, target_size, grayscale) ==
    IF grayscale /\ IsEmpty(img)
    THEN [status |-> "raise", error |-> "cv2.error", region |-> region] @@ no_result
    ELSE IF IsEmpty(img)
    THEN [status |-> "raise", error |-> "ZeroDivision", region |-> region] @@ no_result
    ELSE
    LET ds == dsize(img.shape, target_size)
    IN
    IF ds[1] = 0 \/ ds[2] = 0
    THEN [status |-> "raise", error |-> "cv2.error", region |-> region] @@ no_result
    ELSE
    LET resized == <<ds[2], ds[1]>>
        diff_0 == target_size[1] - resized[1]
        diff_1 == target_size[2] - resized[2]
        p0 == pad_widths(diff_0)
        p1 == pad_widths(diff_1)
        pads == <<p0[1], p0[2], p1[1], p1[2]>>
    IN
    IF \E i \in 1..4 : pads[i] < 0
    THEN [status |-> "raise", error |-> "ValueError", region |-> region,
          tensor |-> <<>>, resized |-> resized, pads |-> pads, padded |-> <<>>,
          forced |-> FALSE]
    ELSE
    LET padded == <<resized[1] + p0[1] + p0[2], resized[2] + p1[1] + p1[2]>>
        forced == needs_final_resize(padded, target_size)
        final == IF forced THEN <<target_size[2], target_size[1]>> ELSE padded
        channels == IF grayscale THEN 1 ELSE 3
    IN  [status |-> "ok", error |-> "", region |-> region,
         tensor |-> <<1, final[1], final[2], channels>>,
         resized |-> resized, pads |-> pads, padded |-> padded, forced |-> forced]

ReshapeImages == {Img(h, w, "input") : h \in 0..MaxDim, w \in 0..MaxDim}

TargetSizes(n) == {<<a, b>> : a \in 1..n, b \in 1..n}

CallReshape ==
    /\ pc = "idle"
    /\ \E i \in ReshapeImages, t \in TargetSizes(MaxTarget), g \in BOOLEAN :
         args' = [op |-> "reshape_face", img |-> i, region |-> whole_region(i),
                  target_size |-> t, grayscale |-> g]
    /\ pc' = "reshape_face"
    /\ ret' = NoRet
    /\ UNCHANGED <<face_detector_obj, builds>>

reshape_face ==
    /\ pc = "reshape_face"
    /\ ret' = [op |-> "reshape_face"]
              @@ reshape_face_body(args.img, args.region, args.target_size, args.grayscale)
    /\ pc' = "returned"
    /\ UNCHANGED <<args, face_detector_obj, builds>>

NextReshape == CallReshape \/ reshape_face \/ Return

SpecReshape == InitState /\ [][NextReshape]_vars

----------------------------------------------------------------------------
(* preprocess_face *)

\* img, region = detected_faces[0]
pick_face(detected_faces) == detected_faces[1]

crop_is_empty_both(img) == img.shape[1] = 0 /\ img.shape[2] = 0

\* if img.shape[0] == 0 or img.shape[1] == 0
crop_is_empty(img) == img.shape[1] = 0 \/ img.shape[2] = 0

\* The body of preprocess_face; `out` is the backend's behaviour should
\* detect_faces invoke it.
preprocess_face_body(d, target_size, grayscale, enforce_detection, detector_backend, align, out, cache, count) ==
    LET L == load_image(d)
    IN
    IF L.raised
    THEN [status |-> "raise", error |-> L.error, stage |-> "load_image",
          cache |-> cache, builds |-> count, faces |-> <<>>,
          reshape_img |-> <<>>, reshape_region |-> <<>>, region |-> <<>>, tensor |-> <<>>]
    ELSE
    LET base_img == L.img
        loaded == [kind |-> "array", exists |-> TRUE, img |-> L.img]
        D == detect_faces_body(loaded, enforce_detection, detector_backend, align,
                               out, cache, count)
    IN
    IF D.status = "raise"
    THEN [status |-> "raise", error |-> D.error, stage |-> "detect_faces",
          cache |-> D.cache, builds |-> D.builds, faces |-> <<>>,
          reshape_img |-> <<>>, reshape_region |-> <<>>, region |-> <<>>, tensor |-> <<>>]
    ELSE
    LET first == pick_face(D.faces)
        img == IF crop_is_empty(first.img) THEN base_img ELSE first.img
        R == reshape_face_body(img, first.region, target_size, grayscale)
    IN  [status |-> R.status, error |-> R.error, stage |-> "reshape_face",
         cache |-> D.cache, builds |-> D.builds, faces |-> D.faces,
         reshape_img |-> img, reshape_region |-> first.region,
         region |-> IF R.status = "ok" THEN R.region ELSE <<>>,
         tensor |-> R.tensor]

\* target_size=(224, 224)
DefaultTargetSize == <<224, 224>>

\* preprocess_face is called with the default target size.
CallPreprocess ==
    /\ pc = "idle"
    /\ \E d \in Descriptors, t \in {DefaultTargetSize}, g \in BOOLEAN,
          e \in BOOLEAN, b \in BackendNames, a \in BOOLEAN :
         args' = [op |-> "preprocess_face", img |-> d, target_size |-> t,
                  grayscale |-> g, enforce_detection |-> e,
                  detector_backend |-> b, align |-> a]
    /\ pc' = "preprocess_face"
    /\ ret' = NoRet
    /\ UNCHANGED <<face_detector_obj, builds>>

preprocess_face ==
    /\ pc = "preprocess_face"
    /\ \E out \in BackendOutcomes(args.img.img) :
         LET R == preprocess_face_body(args.img, args.target_size, args.grayscale,
                                       args.enforce_detection, args.detector_backend,
                                       args.align, out, face_detector_obj, builds)
         IN  /\ ret' = [op |-> "preprocess_face", status |-> R.status,
                        error |-> R.error, stage |-> R.stage, faces |-> R.faces,
                        reshape_img |-> R.reshape_img,
                        reshape_region |-> R.reshape_region,
                        region |-> R.region, tensor |-> R.tensor]
             /\ face_detector_obj' = R.cache
             /\ builds' = R.builds
    /\ pc' = "returned"
    /\ UNCHANGED args

NextPreprocess == CallPreprocess \/ preprocess_face \/ Return

SpecPreprocess == InitState /\ [][NextPreprocess]_vars

----------------------------------------------------------------------------
(* normalize_input *)

\* Pixel values are fixed-point numbers: the integer v stands for v / Scale.
\* Four decimals hold the per-channel means of the VGGFace schemes exactly.
Scale == 10000

MaxLevel == 2     \* a [0, 1] pixel value is one of k / MaxLevel, k in 0..MaxLevel

Recognized == {"base", "raw", "Facenet", "Facenet2018", "VGGFace", "VGGFace2", "ArcFace"}

Schemes == Recognized \cup {"facenet"}

\* A tensor is the three channel values of one pixel.
Tensors == [1..3 -> {(k * Scale) \div MaxLevel : k \in 0..MaxLevel}]

VGGFaceMean == <<935940, 1047624, 1291863>>

VGGFace2Mean == <<914953, 1038827, 1310912>>

\* Largest r with r * r <= x, for 0 <= x, searched in lo..hi.
RECURSIVE isqrt_in(_, _, _)
isqrt_in(x, lo, hi) ==
    IF lo >= hi THEN lo
    ELSE LET mid == (lo + hi + 1) \div 2
         IN  IF mid * mid <= x THEN isqrt_in(x, mid, hi) ELSE isqrt_in(x, lo, mid - 1)

\* (img - img.mean()) / img.std() over the three values.  With
\* d[i] = 3 * img[i] - sum(img) the value is d[i] / sqrt(sum(d^2) / 3); the
\* factor 255 of the rescaled input cancels, so d is taken before it.
\* A constant tensor has std 0 and yields nan.
standardize(t) ==
    LET sum == t[1] + t[2] + t[3]
        d == [i \in 1..3 |-> 3 * t[i] - sum]
        q == d[1] * d[1] + d[2] * d[2] + d[3] * d[3]
        std == isqrt_in(q \div 3, 0, 3 * Scale)
    IN  IF q = 0
        THEN [nan |-> TRUE, px |-> [i \in 1..3 |-> 0]]
        ELSE [nan |-> FALSE, px |-> [i \in 1..3 |-> (d[i] * Scale) \div std]]

\* img *= 255
restore(t) == [i \in 1..3 |-> t[i] * 255]

\* if normalization == 'base'
is_base(normalization) == normalization = "base"

\* The body of normalize_input.  out is the returned tensor, arg_after the
\* caller's array once the call is over (the in-place operators act on it).
normalize_input_body(img, normalization) ==
    IF is_base(normalization)
    THEN [status |-> "ok", error |-> "", out |-> img, nan |-> FALSE, arg_after |-> img]
    ELSE
    LET x == restore(img)
    IN
    IF normalization = "raw"
    THEN [status |-> "ok", error |-> "", out |-> x, nan |-> FALSE, arg_after |-> x]
    ELSE IF normalization = "Facenet"
    THEN LET z == standardize(img)
         IN  [status |-> "ok", error |-> "", out |-> z.px, nan |-> z.nan, arg_after |-> x]
    ELSE IF normalization = "Facenet2018"
    THEN LET y == [i \in 1..3 |-> (2 * x[i]) \div 255 - Scale]
         IN  [status |-> "ok", error |-> "", out |-> y, nan |-> FALSE, arg_after |-> y]
    ELSE IF normalization = "VGGFace"
    THEN LET y == [i \in 1..3 |-> x[i] - VGGFaceMean[i]]
         IN  [status |-> "ok", error |-> "", out |-> y, nan |-> FALSE, arg_after |-> y]
    ELSE IF normalization = "VGGFace2"
    THEN LET y == [i \in 1..3 |-> x[i] - VGGFace2Mean[i]]
         IN  [status |-> "ok", error |-> "", out |-> y, nan |-> FALSE, arg_after |-> y]
    ELSE IF normalization = "ArcFace"
    THEN LET y == [i \in 1..3 |-> (x[i] - (255 * Scale) \div 2) \div 128]
         IN  [status |-> "ok", error |-> "", out |-> y, nan |-> FALSE, arg_after |-> y]
    ELSE [status |-> "ok", error |-> "", out |-> x, nan |-> FALSE, arg_after |-> x]

CallNormalize ==
    /\ pc = "idle"
    /\ \E t \in Tensors, n \in Schemes :
         args' = [op |-> "normalize_input", img |-> t, normalization |-> n]
    /\ pc' = "normalize_input"
    /\ ret' = NoRet
    /\ UNCHANGED <<face_detector_obj, builds>>

normalize_input ==
    /\ pc = "normalize_input"
    /\ ret' = [op |-> "normalize_input"] @@ normalize_input_body(args.img, args.normalization)
    /\ pc' = "returned"
    /\ UNCHANGED <<args, face_detector_obj, builds>>

NextNormalize == CallNormalize \/ normalize_input \/ Return

SpecNormalize == InitState /\ [][NextNormalize]_vars

----------------------------------------------------------------------------
(* Properties of detect_faces, checked under SpecDetect *)

DetectDone == pc = "returned" /\ ret.op = "detect_faces"

\* The call got past load_image and went on to the backend.
DetectRan == DetectDone /\ args.img.exists /\ args.detector_backend # "skip"

InputImage == args.img.img

WholeImagePair == Face(InputImage, <<0, 0, InputImage.shape[1], InputImage.shape[2]>>)

\* C1: when the backend of a non-skip call finds zero faces (an empty list,
\* or an internal failure) and enforce_detection is true, the call fails
\* with the no-face-detected error and returns no result.
C1_EnforcedZeroFacesRaises ==
    (DetectRan /\ ret.found = 0 /\ args.enforce_detection)
        => (ret.status = "raise" /\ ret.error = "NoFaceDetected" /\ ret.faces = <<>>)

\* C2: when the backend of a non-skip call finds zero faces and
\* enforce_detection is false, the call does not raise and returns exactly
\* the pair (whole input image, (0, 0, image_height, image_width)).
C2_UnenforcedZeroFacesFallsBack ==
    (DetectRan /\ ret.found = 0 /\ ~args.enforce_detection)
        => (ret.status = "ok" /\ ret.faces = <<WholeImagePair>>)

\* C4: with backend "skip", for every input image and both values of
\* enforce_detection and align, the call returns exactly the pair (input
\* image, (0, 0, image_height, image_width)) and neither builds nor invokes
\* a detector backend.
C4_SkipReturnsWholeImage ==
    (DetectDone /\ args.img.exists /\ args.detector_backend = "skip")
        => /\ ret.status = "ok"
           /\ ret.faces = <<WholeImagePair>>
           /\ ~ret.built /\ ~ret.invoked
           /\ face_detector_obj = ret.cache_before
           /\ builds["skip"] = 0

C4_Witness ==
    /\ DetectDone /\ args.detector_backend = "skip" /\ ret.status = "ok"
    /\ args.enforce_detection /\ args.align /\ IsEmpty(InputImage)
    /\ \E n \in Backends : face_detector_obj[n] # 0

HasEmptyCrop(faces) == \E i \in 1..Len(faces) : IsEmpty(faces[i].img)

\* C5 as stated: with enforce_detection true, for every backend name and
\* every detection outcome, no returned result holds a crop of zero height
\* or width.
C5_EnforcedNeverReturnsEmptyCrop ==
    (DetectDone /\ args.enforce_detection /\ ret.status = "ok")
        => ~HasEmptyCrop(ret.faces)

\* The crops the call has to judge: the faces the backend reported, or the
\* whole-image fallback when it reported none.
Candidates == IF ret.found = 0 THEN <<WholeImagePair>> ELSE ret.reported

\* C5 (amended): with enforce_detection true and a backend other than
\* "skip", no returned result holds a crop of zero height or width; whenever
\* the detected faces, or the whole-image fallback of an empty image, hold
\* such a crop, the call fails with the degenerate-face error.
C5_EnforcedNonSkipRejectsEmptyCrop ==
    (DetectRan /\ args.enforce_detection)
        => /\ ~HasEmptyCrop(ret.faces)
           /\ HasEmptyCrop(Candidates)
                => (ret.status = "raise" /\ ret.error = "DegenerateFace")

C5_Witness ==
    /\ DetectRan /\ args.enforce_detection
    /\ Len(ret.reported) = 2
    /\ ~IsEmpty(ret.reported[1].img) /\ IsEmpty(ret.reported[2].img)
    /\ ret.error = "DegenerateFace"

NoFacesOutcome == [raised |-> FALSE, faces |-> <<>>]

\* C8: a failure raised inside the backend is never propagated: for every
\* image and both values of enforce_detection the call ends (result or
\* error) as it does when the backend returns an empty list.
C8_BackendFailureIsZeroFaces ==
    (DetectDone /\ ret.backend_raised)
        => LET E == detect_faces_body(args.img, args.enforce_detection,
                                      args.detector_backend, args.align,
                                      NoFacesOutcome, ret.cache_before, builds)
           IN  /\ ret.error # "backend"
               /\ ret.status = E.status /\ ret.error = E.error /\ ret.faces = E.faces

C8_Witness ==
    /\ DetectDone /\ ret.backend_raised /\ ret.status = "ok"
    /\ ret.faces = <<WholeImagePair>>

----------------------------------------------------------------------------
(* Properties of preprocess_face, checked under SpecPreprocess *)

PreprocessDone == pc = "returned" /\ ret.op = "preprocess_face"

\* detect_faces returned a result, so reshape_face was called.
PreprocessReshaped == PreprocessDone /\ ret.stage = "reshape_face"

\* C10 as stated: when the first crop is empty and no error was raised, the
\* tensor comes from the whole original image and the returned Region is
\* (0, 0, image_height, image_width).
C10_FallbackReturnsWholeRegion ==
    (PreprocessReshaped /\ IsEmpty(ret.faces[1].img) /\ ret.status = "ok")
        => /\ ret.reshape_img = InputImage
           /\ ret.region = <<0, 0, InputImage.shape[1], InputImage.shape[2]>>

\* C10 (amended): only the first detection result is used; when its crop has
\* zero height or width the image handed to reshape_face is a copy of the
\* whole original image, otherwise the crop; the Region is never replaced:
\* reshape_face gets, and on success returns, the first result's own Region.
C10_FirstFaceWithImageFallback ==
    PreprocessReshaped
        => /\ ret.reshape_img = IF IsEmpty(ret.faces[1].img) THEN InputImage
                                ELSE ret.faces[1].img
           /\ ret.reshape_region = ret.faces[1].region
           /\ ret.status = "ok" => ret.region = ret.faces[1].region

C10_Witness ==
    /\ PreprocessReshaped /\ ret.status = "ok"
    /\ Len(ret.faces) = 2
    /\ ret.faces[1].img.shape = <<0, 1>> /\ ~IsEmpty(ret.faces[2].img)
    /\ ret.reshape_img = InputImage
    /\ ret.region # <<0, 0, InputImage.shape[1], InputImage.shape[2]>>

----------------------------------------------------------------------------
(* Properties of reshape_face, checked under SpecReshape *)

ReshapeDone == pc = "returned" /\ ret.op = "reshape_face"

\* C3: for every non-empty image and every target size with positive
\* components, reshape_face completes and the spatial dimensions of the
\* tensor are the target size (accepted here in either axis order).
C3_AlwaysTargetShape ==
    (ReshapeDone /\ ~IsEmpty(args.img))
        => /\ ret.status = "ok"
           /\ \/ <<ret.tensor[2], ret.tensor[3]>> = args.target_size
              \/ <<ret.tensor[3], ret.tensor[2]>> = args.target_size

Abs(n) == IF n < 0 THEN -n ELSE n

\* C9: whenever reshape_face pads, the padding on each axis is non-negative
\* on both sides, the two sides differ by at most one pixel, and they sum to
\* the target extent minus the resized extent.
C9_PaddingSymmetric ==
    (ReshapeDone /\ ret.pads # <<>>)
        => /\ \A i \in 1..4 : ret.pads[i] >= 0
           /\ Abs(ret.pads[1] - ret.pads[2]) <= 1
           /\ Abs(ret.pads[3] - ret.pads[4]) <= 1
           /\ ret.pads[1] + ret.pads[2] = args.target_size[1] - ret.resized[1]
           /\ ret.pads[3] + ret.pads[4] = args.target_size[2] - ret.resized[2]

C9_Witness ==
    /\ ReshapeDone /\ ret.status = "ok"
    /\ ret.pads[2] = ret.pads[1] + 1
    /\ ret.pads[3] = 0 /\ ret.pads[4] = 0
    /\ args.img.shape[1] # args.img.shape[2]

----------------------------------------------------------------------------
(* Properties of normalize_input, checked under SpecNormalize *)

NormalizeDone == pc = "returned" /\ ret.op = "normalize_input"

\* C6: called with a scheme name outside the recognized set, normalize_input
\* fails with the unknown-scheme error, returns no tensor and leaves the
\* input tensor unchanged.
C6_UnknownSchemeFails ==
    (NormalizeDone /\ args.normalization \notin Recognized)
        => /\ ret.status = "raise" /\ ret.error = "UnknownScheme"
           /\ ret.arg_after = args.img

----------------------------------------------------------------------------
(* The whole module: any of the four entry points may be called. *)

Init == InitState

Next ==
    \/ CallDetect \/ detect_faces
    \/ CallPreprocess \/ preprocess_face
    \/ CallReshape \/ reshape_face
    \/ CallNormalize \/ normalize_input
    \/ Return

Spec == Init /\ [][Next]_vars

====
